---- MODULE Spec2Model ----
(***************************************************************************)
(* Model of @tralse/mysql-middleware (kntgio-z/mysql-middleware).          *)
(*                                                                         *)
(*   - the connection registry of src/lib/object.ts together with the      *)
(*     acquire / release lifecycle of src/index.ts        (Spec)           *)
(*   - the bounded retry executor of src/lib/deadlock.ts  (SpecRetry)      *)
(*     under fairness (SpecRetryFair) and nested in itself (SpecNested)    *)
(*   - the query executor of src/lib/query.ts             (SpecQuery)      *)
(*   - the transaction methods of src/lib/transactions.ts (SpecTx)         *)
(*   - the registry calls on their own (SpecCalls) and the lifetime of a   *)
(*     session's records under the clock (SpecLife)                        *)
(*   - a transaction query overlapping the registry calls and the          *)
(*     eviction timer (SpecOverlap)                                        *)
(***************************************************************************)
EXTENDS Integers, Sequences, FiniteSets, TLC

----------------------------------------------------------------------------
(* Bounds of the model *)

NumSessions == 2
NumHandles == 2
MaxRegs == 3
TicksPerWindow == 2
NumWindows == 2
MaxRetriesBound == 8
MaxBatch == 2
SmallBackoffCap == 250

----------------------------------------------------------------------------
(* Program constants *)

TIMEOUT_WITHIN == 60000
DefaultMaxBackoffTime == 8000
BackoffBase == 100
QueryMaxRetries_None == BackoffBase - BackoffBase

\* manageDeadlocks(3, ...) in executeDbQuery
QueryMaxRetries == 3

Sessions == 1..NumSessions
Handles == 1..NumHandles

\* value of an absent property / variable
Undefined == "undefined"

TickMs == TIMEOUT_WITHIN \div TicksPerWindow
MaxNow == NumWindows * TIMEOUT_WITHIN + TickMs

VARIABLES
  connectionManager,  \* Map<string, DatabaseObject>: a function on the keys present
  session,            \* session[s]: req.session.tralse_db_mysql.connectionId, or Undefined
  timers,             \* the armed eviction timers (setTimeout callbacks not yet run)
  free,               \* handles the pool can lend
  now,                \* the clock, in ms
  nextReg,            \* number of the next registration (ghost)
  regOf,              \* regOf[id]: the registration that stored the record under id (ghost)
  myReg,              \* myReg[s]: [reg, at] of the latest registration of s, reg = 0 if none (ghost)
  releasedSince,      \* releasedSince[s]: s completed a release after its latest registration (ghost)
  releasedRegs,       \* registrations whose record was removed by dispatchDbObject (ghost)
  lastLookup,         \* lastLookup[s]: outcome of the latest getDbObject of s (ghost)
  lastFire,           \* the latest run of an eviction callback (ghost)
  ownerOf,            \* ownerOf[id]: the session the record under id was registered for (ghost)
  lastErr             \* the error the latest initializeConnection or updateDbObject
                      \* call threw, NoError when it returned (ghost)

regVars == <<connectionManager, session, timers, free, now, nextReg, regOf,
             myReg, releasedSince, releasedRegs, lastLookup, lastFire, ownerOf,
             lastErr>>

VARIABLES
  mdArgs,      \* [maxRetries, maxBackoffTime] of the manageDeadlocks call
  mdPc,        \* "idle", "call", "running", "backoff", "returned", "thrown"
  retryCount,  \* the retryCount of the current executeQueryWithRetries frame
  attempts,    \* number of times queryFunction was invoked (ghost)
  opLog,       \* outcome of every finished attempt, in order (ghost)
  waits,       \* the backoff waits, in order, in ms (ghost)
  mdResult,    \* the value the call returned
  mdError,     \* the error the call threw
  outer        \* the manageDeadlocks call enclosing this one, NoOuter when there
               \* is none: [pc, maxRetries, retryCount, runs, total, error]

mdVars == <<mdArgs, mdPc, retryCount, attempts, opLog, waits, mdResult, mdError,
            outer>>

VARIABLES
  qArgs,        \* the arguments of the executeDbQuery call: arg1, sql, params, options
  qPc,          \* where the current attempt of the query body stands
  qI,           \* the loop index i of the awaiting loop (1-based)
  qConn,        \* the connection the current attempt resolved, 0 when it has none
  queryResult,  \* the queryResult of the current attempt
  qDone,        \* the statements of the Promise.all batch resolved so far, in
                \* the order in which they resolved
  qErr,         \* the error the current attempt is about to throw
  inflight,     \* connection.execute calls not yet settled: [att, idx, conn]; att
                \* is 0 once the attempt that made the call has thrown
  executed,     \* the statements connection.execute was ever called with (ghost)
  dispatched    \* the statements dispatched by the current attempt, in order (ghost)

qVars == <<qArgs, qPc, qI, qConn, queryResult, qDone, qErr, inflight, executed, dispatched>>

VARIABLES
  txState,   \* txState[h]: "active" between beginTransaction and commit / rollback on h
  txPc,      \* txPc[s]: "idle", or "querying" while query() awaits executeDbQuery
  lastTx     \* lastTx[s]: the latest finished transaction call of s and its outcome,
             \* none while a query() of s is awaited (ghost)

txVars == <<txState, txPc, lastTx>>

----------------------------------------------------------------------------
(* src/lib/object.ts *)

\* connection.threadId: every pooled handle has its own thread id
ThreadId(h) == h

\* connection.threadId.toString()
ConnectionIdOf(h) == ToString(ThreadId(h))

\* timeoutId.toString() of a Node.js Timeout object: Timeout does not override
\* toString, so the record stores Object.prototype.toString's text
TimeoutToString(t) == "[object Object]"

\* the primitive id under which a timer can be cleared by number or string
TimerPrimitive(t) == ToString(t.reg)

\* clearTimeout(arg) for a string argument: cancels the timer known under
\* that primitive id, when there is one
ClearTimeout(ts, arg) == {t \in ts : TimerPrimitive(t) # arg}

NoLookup == [code |-> "none", hit |-> 0, late |-> FALSE]
NoFire == [reg |-> 0, removed |-> 0]

\* getConnectionId followed by the has/get of deserializeConnection
DeserializeConnection(cm, sess, s) ==
  IF sess[s] = Undefined
    THEN [ok |-> FALSE, code |-> "CONN_NOT_INIT", id |-> Undefined]
    ELSE IF sess[s] \in DOMAIN cm
      THEN [ok |-> TRUE, code |-> "OK", id |-> sess[s]]
      ELSE [ok |-> FALSE, code |-> "CONN_NOT_INIT", id |-> Undefined]

Remove(f, k) == [x \in (DOMAIN f) \ {k} |-> f[x]]
Put(f, k, v) == [x \in (DOMAIN f) \cup {k} |-> IF x = k THEN v ELSE f[x]]


----------------------------------------------------------------------------
(* src/errors/error.ts *)

\* new DatabaseError(message, code = "DB_ERR")
DatabaseError(message, code) ==
  [name |-> "DatabaseError", message |-> message, code |-> code]

\* an error raised by the driver: its name is not one of the package's classes
DriverError(code) ==
  [name |-> "Error", message |-> <<code>>, code |-> code]

NoError == [name |-> "none", message |-> << >>, code |-> "none"]

----------------------------------------------------------------------------
(* src/lib/deadlock.ts *)

ContentionCodes == {"ER_LOCK_DEADLOCK", "ER_LOCK_WAIT_TIMEOUT"}
OtherCodes == {"ER_DUP_ENTRY", "CONN_NOT_INIT"}
OpResults == {"rowsA", "rowsB"}

\* the maxBackoffTime argument as passed: omitted, or a number
BackoffArgs == {<< >>, <<SmallBackoffCap>>}

\* maxBackoffTime: number = 8000
MaxBackoffTimeOf(arg) == IF arg = << >> THEN DefaultMaxBackoffTime ELSE arg[1]

IsContention_Any(code) == TRUE

\* error.code === "ER_LOCK_DEADLOCK" || error.code === "ER_LOCK_WAIT_TIMEOUT"
IsContention(code) == code = "ER_LOCK_DEADLOCK" \/ code = "ER_LOCK_WAIT_TIMEOUT"

ShouldRetry_OffByOne(rc, maxRetries, code) == rc <= maxRetries /\ IsContention(code)

\* the condition of the catch block: retry, or surface the error
ShouldRetry(rc, maxRetries, code) == rc < maxRetries /\ IsContention(code)

Min(a, b) == IF a < b THEN a ELSE b

BackoffTime_NoCap(rc, maxBackoffTime) == (2 ^ rc) * BackoffBase

\* Math.min(Math.pow(2, retryCount) * 100, maxBackoffTime)
BackoffTime(rc, maxBackoffTime) == Min((2 ^ rc) * BackoffBase, maxBackoffTime)

\* a catch block that would rethrow the error as it caught it
RetriesError_Rethrown(maxRetries, error) == error

\* a wrapper that would carry the underlying code over
RetriesError_KeepsCode(maxRetries, error) ==
  DatabaseError(<<"Database error after ", ToString(maxRetries), " retries: ">>
                  \o error.message, error.code)

\* new DatabaseError(`Database error after ${maxRetries} retries: ${error.message}`):
\* no code is passed, the constructor's default DB_ERR applies
RetriesError(maxRetries, error) ==
  DatabaseError(<<"Database error after ", ToString(maxRetries), " retries: ">>
                  \o error.message, "DB_ERR")

RetriedValue_Dropped(v) == Undefined

\* return executeQueryWithRetries(retryCount + 1): the value of the retried
\* frame is the value of the enclosing frame
RetriedValue(v) == v

\* the try block: return await queryFunction() resolved with r
MdOnSuccess(r) ==
  /\ mdPc = "running"
  /\ opLog' = Append(opLog, r)
  /\ mdResult' = IF retryCount = 0 THEN r ELSE RetriedValue(r)
  /\ mdPc' = "returned"
  /\ UNCHANGED <<mdArgs, retryCount, attempts, waits, mdError, outer>>

\* the catch block, queryFunction() having rejected with error
MdOnFailure(error) ==
  /\ mdPc = "running"
  /\ opLog' = Append(opLog, error.code)
  /\ IF ShouldRetry(retryCount, mdArgs.maxRetries, error.code)
       THEN /\ mdPc' = "backoff"
            /\ UNCHANGED mdError
       ELSE /\ mdPc' = "thrown"
            /\ mdError' = RetriesError(mdArgs.maxRetries, error)
  /\ UNCHANGED <<mdArgs, retryCount, attempts, waits, mdResult, outer>>

\* executeQueryWithRetries(retryCount) calls queryFunction()
MdInvoke ==
  /\ mdPc = "call"
  /\ mdPc' = "running"
  /\ attempts' = attempts + 1
  /\ UNCHANGED <<mdArgs, retryCount, opLog, waits, mdResult, mdError, outer>>

NextRetryCount_Same(rc) == rc

\* executeQueryWithRetries(retryCount + 1): the retried frame counts one up
NextRetryCount(rc) == rc + 1

\* the setTimeout of the backoff resolves; executeQueryWithRetries(retryCount + 1)
MdBackoffElapsed ==
  /\ mdPc = "backoff"
  /\ waits' = Append(waits, BackoffTime(retryCount, mdArgs.maxBackoffTime))
  /\ retryCount' = NextRetryCount(retryCount)
  /\ mdPc' = "call"
  /\ UNCHANGED <<mdArgs, attempts, opLog, mdResult, mdError, outer>>

\* no enclosing manageDeadlocks call
NoOuter == [pc |-> "none", maxRetries |-> 0, retryCount |-> 0, runs |-> 0,
            total |-> 0, error |-> NoError]

\* no manageDeadlocks call is under way
MdIdle ==
  /\ mdArgs = [maxRetries |-> 0, maxBackoffTime |-> DefaultMaxBackoffTime]
  /\ mdPc = "idle"
  /\ retryCount = 0
  /\ attempts = 0
  /\ opLog = << >>
  /\ waits = << >>
  /\ mdResult = Undefined
  /\ mdError = NoError
  /\ outer = NoOuter

\* manageDeadlocks(maxRetries, queryFunction, maxBackoffTime) has been called
MdCalled(maxRetries, backoffArg) ==
  /\ mdArgs = [maxRetries |-> maxRetries, maxBackoffTime |-> MaxBackoffTimeOf(backoffArg)]
  /\ mdPc = "call"
  /\ retryCount = 0
  /\ attempts = 0
  /\ opLog = << >>
  /\ waits = << >>
  /\ mdResult = Undefined
  /\ mdError = NoError

\* manageDeadlocks(maxRetries, () => manageDeadlocks(...)) has been called
\* and has invoked its queryFunction, the inner call, for the first time
OuterCalled(maxRetries) ==
  outer = [pc |-> "running", maxRetries |-> maxRetries, retryCount |-> 0,
           runs |-> 1, total |-> 0, error |-> NoError]

\* the try block of the enclosing call: the inner call returned
OuterOnSuccess ==
  /\ outer.pc = "running"
  /\ mdPc = "returned"
  /\ outer' = [outer EXCEPT !.pc = "returned", !.total = @ + attempts]
  /\ UNCHANGED <<mdArgs, mdPc, retryCount, attempts, opLog, waits, mdResult, mdError>>

\* the catch block of the enclosing call, the inner call having thrown
\* mdError: on a contention code it waits and invokes the inner call anew,
\* which starts with its own retryCount of 0; otherwise it wraps and throws
OuterOnFailure ==
  /\ outer.pc = "running"
  /\ mdPc = "thrown"
  /\ IF ShouldRetry(outer.retryCount, outer.maxRetries, mdError.code)
       THEN /\ outer' = [outer EXCEPT !.retryCount = NextRetryCount(@),
                                       !.runs = @ + 1,
                                       !.total = @ + attempts]
            /\ mdPc' = "call"
            /\ retryCount' = 0
            /\ attempts' = 0
            /\ opLog' = << >>
            /\ waits' = << >>
            /\ mdResult' = Undefined
            /\ mdError' = NoError
            /\ UNCHANGED mdArgs
       ELSE /\ outer' = [outer EXCEPT !.pc = "thrown",
                                       !.total = @ + attempts,
                                       !.error = RetriesError(outer.maxRetries, mdError)]
            /\ UNCHANGED <<mdArgs, mdPc, retryCount, attempts, opLog, waits,
                           mdResult, mdError>>

\* queryFunction of the retry specification: any outcome on any attempt
OpSucceeds == \E r \in OpResults : MdOnSuccess(r)
OpFails == \E c \in ContentionCodes \cup OtherCodes : MdOnFailure(DriverError(c))

----------------------------------------------------------------------------
(* src/lib/query.ts *)

\* sql: one statement, or a list of 0..MaxBatch statements
SqlArgs == {[isArray |-> FALSE, len |-> 1]}
             \cup {[isArray |-> TRUE, len |-> n] : n \in 0..MaxBatch}

\* params: a list (any[] | any[][], [] when omitted)
ParamsArgs == {[len |-> n] : n \in 0..MaxBatch}

\* options: absent, { parallel: false } or { parallel: true }
OptionsArgs == {<< >>, <<FALSE>>, <<TRUE>>}

\* arg1: a connection, or the request of a session
Arg1Args == {[kind |-> "conn", ref |-> 1], [kind |-> "req", ref |-> 1]}

NoArgs == [arg1 |-> [kind |-> "conn", ref |-> 1],
           sql |-> [isArray |-> FALSE, len |-> 1],
           params |-> [len |-> 0],
           options |-> << >>]

\* the rows connection.execute resolves with for statement idx
Rows(idx) == [rows |-> idx]

StmtFailCodes == {"ER_LOCK_DEADLOCK", "ER_DUP_ENTRY"}

\* the connection of an attempt: arg1 itself when it has execute, else
\* getDbObject(arg1).connection
ResolveConnection(arg1) ==
  IF arg1.kind = "conn"
    THEN [ok |-> TRUE, conn |-> arg1.ref]
    ELSE LET d == DeserializeConnection(connectionManager, session, arg1.ref)
         IN IF d.ok
              THEN [ok |-> TRUE, conn |-> connectionManager[d.id].connection]
              ELSE [ok |-> FALSE, conn |-> 0]

ConnNotInitError ==
  DatabaseError(<<"Connection is not yet initialized.">>, "CONN_NOT_INIT")

MismatchError ==
  DatabaseError(<<"Mismatched SQL queries and parameters.">>, "DB_ERR")

Mismatched_OnlyLonger(sql, params) == sql.len > params.len

\* !Array.isArray(params) || sql.length !== params.length
Mismatched(sql, params) == sql.len # params.len

\* if (options && options.parallel): the branch holding the for loop that
\* awaits each connection.execute; the else branch maps and awaits Promise.all
TakesAwaitingLoop(options) == options # << >> /\ options[1]

QIdle ==
  /\ qArgs = NoArgs
  /\ qPc = "idle"
  /\ qI = 0
  /\ qConn = 0
  /\ queryResult = << >>
  /\ qDone = << >>
  /\ qErr = NoError
  /\ inflight = {}
  /\ executed = {}
  /\ dispatched = << >>

\* the attempt throws err
QThrow(err) ==
  /\ qPc' = "throwing"
  /\ qErr' = err
  /\ UNCHANGED <<qArgs, qI, queryResult, qDone, inflight, executed, dispatched>>

Calls(att, conn, idxs) == {[att |-> att, idx |-> i, conn |-> conn] : i \in idxs}

RECURSIVE Ascending(_, _)
Ascending(lo, hi) == IF lo > hi THEN << >> ELSE <<lo>> \o Ascending(lo + 1, hi)

\* the synchronous start of the query body, up to its first await
QBodyStart(att) ==
  LET c == ResolveConnection(qArgs.arg1)
      n == qArgs.sql.len
  IN /\ qConn' = c.conn
     /\ IF ~c.ok
          THEN QThrow(ConnNotInitError)
        ELSE IF qArgs.sql.isArray /\ Mismatched(qArgs.sql, qArgs.params)
          THEN QThrow(MismatchError)
        ELSE IF qArgs.sql.isArray /\ TakesAwaitingLoop(qArgs.options)
          THEN \* for (i = 0; ...) { await connection.execute(sql[i], params[i]) }
               /\ queryResult' = << >>
               /\ qDone' = << >>
               /\ IF n = 0
                    THEN /\ qPc' = "returning"
                         /\ qI' = 0
                         /\ dispatched' = << >>
                         /\ UNCHANGED <<inflight, executed>>
                    ELSE /\ qPc' = "awaitOne"
                         /\ qI' = 1
                         /\ inflight' = inflight \cup Calls(att, c.conn, {1})
                         /\ executed' = executed \cup {1}
                         /\ dispatched' = <<1>>
               /\ UNCHANGED <<qArgs, qErr>>
        ELSE IF qArgs.sql.isArray
          THEN \* sql.map(connection.execute), then await Promise.all(promises)
               /\ queryResult' = << >>
               /\ qDone' = << >>
               /\ qI' = 0
               /\ qPc' = IF n = 0 THEN "returning" ELSE "awaitAll"
               /\ inflight' = inflight \cup Calls(att, c.conn, 1..n)
               /\ executed' = executed \cup (1..n)
               /\ dispatched' = Ascending(1, n)
               /\ UNCHANGED <<qArgs, qErr>>
          ELSE \* const [rows] = await connection.execute(sql, params)
               /\ queryResult' = << >>
               /\ qDone' = << >>
               /\ qI' = 0
               /\ qPc' = "awaitSingle"
               /\ inflight' = inflight \cup Calls(att, c.conn, {1})
               /\ executed' = executed \cup {1}
               /\ dispatched' = <<1>>
               /\ UNCHANGED <<qArgs, qErr>>

\* manageDeadlocks invokes the query body
QAttempt ==
  /\ MdInvoke
  /\ QBodyStart(attempts + 1)

\* the attempt that made the call x is still waiting for it
Awaited(x) ==
  /\ x.att = attempts
  /\ qPc \in {"awaitSingle", "awaitOne", "awaitAll"}

ResultsArray_CompletionOrder(n, done) == [i \in 1..n |-> Rows(done[i])]

\* resultsArray.map(([rows]) => rows): Promise.all resolves with the values
\* in the order of the promises it was given, whatever order they settled in
ResultsArray(n, done) == [i \in 1..n |-> Rows(i)]

\* a connection.execute call resolves; the body runs on to its next await
ExecuteResolves(x) ==
  /\ x \in inflight
  /\ Awaited(x)
  /\ IF qPc = "awaitSingle"
       THEN /\ queryResult' = Rows(x.idx)
            /\ qPc' = "returning"
            /\ inflight' = inflight \ {x}
            /\ UNCHANGED <<qArgs, qI, qConn, qDone, qErr, executed, dispatched>>
     ELSE IF qPc = "awaitOne"
       THEN /\ queryResult' = Append(queryResult, Rows(x.idx))
            /\ IF qI < qArgs.sql.len
                 THEN /\ qI' = qI + 1
                      /\ inflight' = (inflight \ {x}) \cup Calls(x.att, x.conn, {qI + 1})
                      /\ executed' = executed \cup {qI + 1}
                      /\ dispatched' = Append(dispatched, qI + 1)
                      /\ UNCHANGED qPc
                 ELSE /\ qPc' = "returning"
                      /\ inflight' = inflight \ {x}
                      /\ UNCHANGED <<qI, executed, dispatched>>
            /\ UNCHANGED <<qArgs, qConn, qDone, qErr>>
       ELSE \* qPc = "awaitAll"
            /\ qDone' = Append(qDone, x.idx)
            /\ inflight' = inflight \ {x}
            /\ IF Len(qDone') = qArgs.sql.len
                 THEN /\ queryResult' = ResultsArray(qArgs.sql.len, qDone')
                      /\ qPc' = "returning"
                 ELSE UNCHANGED <<queryResult, qPc>>
            /\ UNCHANGED <<qArgs, qI, qConn, qErr, executed, dispatched>>

\* the calls an attempt leaves behind when it throws: they run on, unawaited
Abandoned(calls) == {[att |-> 0, idx |-> y.idx, conn |-> y.conn] : y \in calls}

\* a connection.execute call rejects with a driver error: the await, or
\* Promise.all, throws it; the other calls of the batch stay in flight
ExecuteRejects(x, code) ==
  /\ x \in inflight
  /\ Awaited(x)
  /\ inflight' = Abandoned(inflight \ {x})
  /\ qPc' = "throwing"
  /\ qErr' = DriverError(code)
  /\ UNCHANGED <<qArgs, qI, qConn, queryResult, qDone, executed, dispatched>>

\* a call of an attempt that has already thrown settles, either way: nobody
\* awaits it any more and its outcome is dropped
ExecuteSettlesUnawaited(x) ==
  /\ x \in inflight
  /\ ~Awaited(x)
  /\ inflight' = inflight \ {x}
  /\ UNCHANGED <<qArgs, qPc, qI, qConn, queryResult, qDone, qErr, executed, dispatched>>

\* return queryResult: the attempt resolves
QReturns ==
  /\ qPc = "returning"
  /\ MdOnSuccess(queryResult)
  /\ qPc' = "idle"
  /\ UNCHANGED <<qArgs, qI, qConn, queryResult, qDone, qErr, inflight, executed,
                 dispatched>>

\* catch (error) { throw error }: the attempt rejects
QThrows ==
  /\ qPc = "throwing"
  /\ MdOnFailure(qErr)
  /\ qPc' = "idle"
  /\ UNCHANGED <<qArgs, qI, qConn, queryResult, qDone, qErr, inflight, executed,
                 dispatched>>

----------------------------------------------------------------------------
(* src/helpers/ref.ts, src/lib/transactions.ts *)

\* new TransactionError(message, code = "TRANSACTION_ERR")
TransactionError(message, code) ==
  [name |-> "TransactionError", message |-> message, code |-> code]

\* uuidv4(): a value no record carries as its referenceNo
Uuidv4(cm) ==
  CHOOSE u \in {ToString(n) : n \in 1..(Cardinality(DOMAIN cm) + 1)} :
    \A id \in DOMAIN cm : cm[id].referenceNo # u

\* generateRefNo(): the string `${uuid}-${timestamp}`
GenerateRefNo(cm, t) ==
  [type |-> "string", uuid |-> Uuidv4(cm), timestamp |-> ToString(t)]

Property_OfParts(v, name) == v[name]

\* v[name] as read by the destructuring const { uuid, timestamp } = v: a
\* string has no property of either name, an object yields its field
Property(v, name) == IF v.type = "object" THEN v[name] ELSE Undefined

NoSnapshot == [connection |-> FALSE, referenceNo |-> Undefined, timestamp |-> Undefined]

NoTx == [op |-> "none", threw |-> FALSE, err |-> NoError, handle |-> 0,
         value |-> NoSnapshot]

UndefinedObjectError ==
  DatabaseError(<<"Database object or connection is undefined.">>, "DB_ERR")

DriverFailure == DriverError("PROTOCOL_CONNECTION_LOST")

\* the outcome of a transaction call: whether it threw and what, the handle
\* whose method it awaited (0 when none), the value it returned
TxOutcome(op, threw, err, handle, value) ==
  [op |-> op, threw |-> threw, err |-> err, handle |-> handle, value |-> value]

BeginTransaction_NotAfterCommit(st, prev) ==
  IF prev.op = "commit" /\ ~prev.threw THEN st ELSE "active"

\* await connection.beginTransaction() resolved: a transaction is open on
\* the handle, whatever its state was and whatever call prev the session
\* made before
BeginTransaction(st, prev) == "active"

CatchLeaves_RollsBack(ts, h) == [ts EXCEPT ![h] = "none"]

\* the catch blocks of init() and commit() after the handle's method
\* rejected: they log and throw, and call nothing on the handle
CatchLeaves(ts, h) == ts

TxIdle ==
  /\ txState = [h \in Handles |-> "none"]
  /\ txPc = [s \in Sessions |-> "idle"]
  /\ lastTx = [s \in Sessions |-> NoTx]

\* init(): getDbObject, then connection.beginTransaction()
TxInit(s) ==
  LET d == DeserializeConnection(connectionManager, session, s)
  IN /\ txPc[s] = "idle"
     /\ IF ~d.ok
          THEN \* a DatabaseError is rethrown as a TransactionError
               /\ lastTx' = [lastTx EXCEPT ![s] =
                    TxOutcome("init", TRUE,
                      TransactionError(<<"Failed to initialize transaction: ", d.code>>,
                                       "TRANSACTION_ERR"), 0, NoSnapshot)]
               /\ UNCHANGED txState
          ELSE LET h == connectionManager[d.id].connection
               IN \/ /\ txState' = [txState EXCEPT ![h] = BeginTransaction(txState[h], lastTx[s])]
                     /\ lastTx' = [lastTx EXCEPT ![s] =
                          TxOutcome("init", FALSE, NoError, h, NoSnapshot)]
                  \/ \* beginTransaction rejects: the driver's error is rethrown
                     /\ lastTx' = [lastTx EXCEPT ![s] =
                          TxOutcome("init", TRUE, DriverFailure, h, NoSnapshot)]
                     /\ txState' = CatchLeaves(txState, h)
     /\ UNCHANGED txPc

\* commit(): getDbObject, then connection.commit()
TxCommit(s) ==
  LET d == DeserializeConnection(connectionManager, session, s)
  IN /\ txPc[s] = "idle"
     /\ IF ~d.ok
          THEN \* error.code === "CONN_NOT_INIT": message and code are kept
               /\ lastTx' = [lastTx EXCEPT ![s] =
                    TxOutcome("commit", TRUE,
                      TransactionError(ConnNotInitError.message, d.code), 0, NoSnapshot)]
               /\ UNCHANGED txState
          ELSE LET h == connectionManager[d.id].connection
               IN \/ /\ txState' = [txState EXCEPT ![h] = "none"]
                     /\ lastTx' = [lastTx EXCEPT ![s] =
                          TxOutcome("commit", FALSE, NoError, h, NoSnapshot)]
                  \/ \* connection.commit() rejects
                     /\ lastTx' = [lastTx EXCEPT ![s] =
                          TxOutcome("commit", TRUE,
                            TransactionError(<<"Failed to commit transaction: ",
                                               DriverFailure.code>>, "TRANSACTION_ERR"),
                            h, NoSnapshot)]
                     /\ txState' = CatchLeaves(txState, h)
     /\ UNCHANGED txPc

RollbackRefuses_Never(record) == FALSE

\* !dbObject || !dbObject.connection || !dbObject.referenceNo
RollbackRefuses(record) == record.referenceNo = Undefined

\* rollback(): getDbObject, the referenceNo test, then connection.rollback()
TxRollback(s) ==
  LET d == DeserializeConnection(connectionManager, session, s)
  IN /\ txPc[s] = "idle"
     /\ IF ~d.ok
          THEN /\ lastTx' = [lastTx EXCEPT ![s] =
                    TxOutcome("rollback", TRUE,
                      TransactionError(<<"Failed to rollback transaction: ", d.code>>,
                                       d.code), 0, NoSnapshot)]
               /\ UNCHANGED txState
        ELSE IF RollbackRefuses(connectionManager[d.id])
          THEN /\ lastTx' = [lastTx EXCEPT ![s] =
                    TxOutcome("rollback", TRUE,
                      TransactionError(<<"Failed to rollback transaction: ",
                                         UndefinedObjectError.code>>,
                                       UndefinedObjectError.code), 0, NoSnapshot)]
               /\ UNCHANGED txState
          ELSE LET h == connectionManager[d.id].connection
               IN \/ /\ txState' = [txState EXCEPT ![h] = "none"]
                     /\ lastTx' = [lastTx EXCEPT ![s] =
                          TxOutcome("rollback", FALSE, NoError, h, NoSnapshot)]
                  \/ \* connection.rollback() rejects
                     /\ lastTx' = [lastTx EXCEPT ![s] =
                          TxOutcome("rollback", TRUE,
                            TransactionError(<<"Failed to rollback transaction: ",
                                               DriverFailure.code>>, DriverFailure.code),
                            h, NoSnapshot)]
                     /\ UNCHANGED txState
     /\ UNCHANGED txPc

\* const { timeoutId, ...newDbObject } = dbObject;
\* return { ...newDbObject, connection: !!newDbObject.connection }
Snapshot(record) ==
  [connection |-> record.connection # 0,
   referenceNo |-> record.referenceNo,
   timestamp |-> record.timestamp]

RetrieveLeaves_StripsTimer(cm, id) == [cm EXCEPT ![id].timeoutId = Undefined]

\* the map after retrieve() read the record under id: the rest pattern
\* copies the record's properties, the record itself is not written
RetrieveLeaves(cm, id) == cm

\* retrieve(): getDbObject and a snapshot of the record, or the lookup's error
TxRetrieve(s) ==
  LET d == DeserializeConnection(connectionManager, session, s)
  IN /\ IF ~d.ok
          THEN /\ lastTx' = [lastTx EXCEPT ![s] =
                    TxOutcome("retrieve", TRUE, ConnNotInitError, 0, NoSnapshot)]
               /\ UNCHANGED connectionManager
          ELSE /\ lastTx' = [lastTx EXCEPT ![s] =
                    TxOutcome("retrieve", FALSE, NoError, 0,
                              Snapshot(connectionManager[d.id]))]
               /\ connectionManager' = RetrieveLeaves(connectionManager, d.id)
     /\ UNCHANGED <<txState, txPc>>
     /\ UNCHANGED <<session, timers, free, now, nextReg, regOf, myReg, releasedSince,
                    releasedRegs, lastLookup, lastFire, ownerOf, lastErr>>

\* the params argument of the transaction query(sql, params = [])
TxParamsArgs == {[isArray |-> TRUE, len |-> n] : n \in 0..MaxBatch}
                  \cup {[isArray |-> FALSE, len |-> 1]}

\* executeDbQuery(connection, sql, params) against the parameter list
\* (arg1, dbName, sql, params = [], options): the caller's sql lands in
\* dbName, its params in sql, and params and options are left out
ShiftedArgs(h, paramsArg) ==
  [arg1 |-> [kind |-> "conn", ref |-> h],
   sql |-> paramsArg,
   params |-> [len |-> 0],
   options |-> << >>]

\* executeDbQuery has been called with args: manageDeadlocks(3, body)
ExecuteDbQueryCalled(args) ==
  /\ mdArgs' = [maxRetries |-> QueryMaxRetries,
                maxBackoffTime |-> MaxBackoffTimeOf(<< >>)]
  /\ mdPc' = "call"
  /\ retryCount' = 0
  /\ attempts' = 0
  /\ opLog' = << >>
  /\ waits' = << >>
  /\ mdResult' = Undefined
  /\ mdError' = NoError
  /\ qArgs' = args
  /\ qPc' = "idle"
  /\ qI' = 0
  /\ qConn' = 0
  /\ queryResult' = << >>
  /\ qDone' = << >>
  /\ qErr' = NoError
  /\ executed' = {}
  /\ dispatched' = << >>
  /\ UNCHANGED <<inflight, outer>>

\* the caller has taken the outcome of the executeDbQuery call
ExecuteDbQuerySettled ==
  /\ mdArgs' = [maxRetries |-> 0, maxBackoffTime |-> DefaultMaxBackoffTime]
  /\ mdPc' = "idle"
  /\ retryCount' = 0
  /\ attempts' = 0
  /\ opLog' = << >>
  /\ waits' = << >>
  /\ mdResult' = Undefined
  /\ mdError' = NoError
  /\ qArgs' = NoArgs
  /\ qPc' = "idle"
  /\ qI' = 0
  /\ qConn' = 0
  /\ queryResult' = << >>
  /\ qDone' = << >>
  /\ qErr' = NoError
  /\ executed' = {}
  /\ dispatched' = << >>
  /\ UNCHANGED <<inflight, outer>>

UpdateDbObject_DropsTimer(cm, id, updateData) ==
  [cm EXCEPT ![id] = [connection |-> cm[id].connection,
                      timeoutId |-> Undefined,
                      referenceNo |-> IF "referenceNo" \in DOMAIN updateData
                                        THEN updateData.referenceNo
                                        ELSE cm[id].referenceNo,
                      timestamp |-> IF "timestamp" \in DOMAIN updateData
                                      THEN updateData.timestamp
                                      ELSE cm[id].timestamp]]

\* updateDbObject(req, updateData) on a session whose lookup succeeds:
\* connectionManager.set(id, { ...data, ...updateData }); a property that
\* updateData has, even with the value undefined, replaces the record's
UpdateDbObject(cm, id, updateData) ==
  [cm EXCEPT ![id] = [connection |-> cm[id].connection,
                      timeoutId |-> cm[id].timeoutId,
                      referenceNo |-> IF "referenceNo" \in DOMAIN updateData
                                        THEN updateData.referenceNo
                                        ELSE cm[id].referenceNo,
                      timestamp |-> IF "timestamp" \in DOMAIN updateData
                                      THEN updateData.timestamp
                                      ELSE cm[id].timestamp]]

\* query(sql, params): getDbObject, then the call of executeDbQuery
TxQueryStart(s, paramsArg) ==
  LET d == DeserializeConnection(connectionManager, session, s)
  IN /\ txPc[s] = "idle"
     /\ mdPc = "idle"
     /\ IF ~d.ok
          THEN /\ lastTx' = [lastTx EXCEPT ![s] =
                    TxOutcome("query", TRUE,
                      TransactionError(<<"Failed to initialize transaction: ", d.code>>,
                                       "TRANSACTION_ERR"), 0, NoSnapshot)]
               /\ UNCHANGED <<txPc, mdVars, qVars>>
          ELSE /\ txPc' = [txPc EXCEPT ![s] = "querying"]
               /\ ExecuteDbQueryCalled(ShiftedArgs(connectionManager[d.id].connection,
                                                   paramsArg))
               /\ lastTx' = [lastTx EXCEPT ![s] = NoTx]
     /\ UNCHANGED <<txState, regVars>>

\* a catch block that would reset the metadata of the session's record
MetadataOnFailure_Cleared(cm, d) ==
  IF d.ok
    THEN [cm EXCEPT ![d.id].referenceNo = Undefined, ![d.id].timestamp = Undefined]
    ELSE cm

\* the catch block of query() only wraps and rethrows: updateDbObject is
\* called after the await alone, so a failed executeDbQuery leaves the map
\* (cm), the record the session's lookup d finds included, as it was
MetadataOnFailure(cm, d) == cm

\* query() resumes after await executeDbQuery: generateRefNo and
\* updateDbObject on success, the catch block on an error
TxQueryResumes(s) ==
  LET d == DeserializeConnection(connectionManager, session, s)
      ref == GenerateRefNo(connectionManager, now)
      updateData == [referenceNo |-> Property(ref, "uuid"),
                     timestamp |-> Property(ref, "timestamp")]
  IN /\ txPc[s] = "querying"
     /\ mdPc \in {"returned", "thrown"}
     /\ txPc' = [txPc EXCEPT ![s] = "idle"]
     /\ ExecuteDbQuerySettled
     /\ IF mdPc = "thrown"
          THEN \* the DatabaseError of manageDeadlocks is rethrown
               /\ lastTx' = [lastTx EXCEPT ![s] =
                    TxOutcome("query", TRUE,
                      TransactionError(<<"Failed to initialize transaction: ",
                                         mdError.code>>, "TRANSACTION_ERR"),
                      qArgs.arg1.ref, NoSnapshot)]
               /\ connectionManager' = MetadataOnFailure(connectionManager, d)
        ELSE IF ~d.ok
          THEN \* updateDbObject throws: the record went away during the query
               /\ lastTx' = [lastTx EXCEPT ![s] =
                    TxOutcome("query", TRUE,
                      TransactionError(<<"Failed to initialize transaction: ", d.code>>,
                                       "TRANSACTION_ERR"),
                      qArgs.arg1.ref, NoSnapshot)]
               /\ UNCHANGED connectionManager
          ELSE /\ connectionManager' = UpdateDbObject(connectionManager, d.id, updateData)
               /\ lastTx' = [lastTx EXCEPT ![s] =
                    TxOutcome("query", FALSE, NoError, qArgs.arg1.ref, NoSnapshot)]
     /\ UNCHANGED <<txState, session, timers, free, now, nextReg, regOf, myReg,
                    releasedSince, releasedRegs, lastLookup, lastFire, ownerOf, lastErr>>

----------------------------------------------------------------------------
RegInit ==
  /\ connectionManager = << >>
  /\ session = [s \in Sessions |-> Undefined]
  /\ timers = {}
  /\ free = Handles
  /\ now = 0
  /\ nextReg = 1
  /\ regOf = << >>
  /\ myReg = [s \in Sessions |-> [reg |-> 0, at |-> 0]]
  /\ releasedSince = [s \in Sessions |-> FALSE]
  /\ releasedRegs = {}
  /\ lastLookup = [s \in Sessions |-> NoLookup]
  /\ lastFire = NoFire
  /\ ownerOf = << >>
  /\ lastErr = NoError

Init == RegInit /\ MdIdle /\ QIdle /\ TxIdle

\* a record that would inherit the fields of the record the session's
\* stored id still names
ConnectionData_Merged(cm, prev, h, t) ==
  IF prev \in DOMAIN cm
    THEN [cm[prev] EXCEPT !.connection = h, !.timeoutId = TimeoutToString(t)]
    ELSE [connection |-> h, timeoutId |-> TimeoutToString(t),
          referenceNo |-> Undefined, timestamp |-> Undefined]

\* const connectionData = { connection }, then connectionData.timeoutId =
\* timeoutId.toString(): the record stored for handle h with timer t has no
\* referenceNo and no timestamp, whatever the map held (cm) and whatever id
\* the session stored before (prev)
ConnectionData(cm, prev, h, t) ==
  [connection |-> h, timeoutId |-> TimeoutToString(t),
   referenceNo |-> Undefined, timestamp |-> Undefined]

\* serializeConnection(req, connection): session id, record, eviction timer
SerializeConnection(s, h) ==
  LET id == ConnectionIdOf(h)
      t == [reg |-> nextReg, key |-> id, deadline |-> now + TIMEOUT_WITHIN]
  IN /\ session' = [session EXCEPT ![s] = id]
     /\ connectionManager' =
          Put(connectionManager, id,
              ConnectionData(connectionManager, session[s], h, t))
     /\ timers' = timers \cup {t}
     /\ regOf' = Put(regOf, id, nextReg)
     /\ ownerOf' = Put(ownerOf, id, s)
     /\ myReg' = [myReg EXCEPT ![s] = [reg |-> nextReg, at |-> now]]
     /\ nextReg' = nextReg + 1

\* initializeConnection of src/index.ts: pool.getConnection() then serializeConnection
InitializeConnection(s) ==
  /\ nextReg <= MaxRegs
  /\ \E h \in free :
       /\ free' = free \ {h}
       /\ SerializeConnection(s, h)
  /\ releasedSince' = [releasedSince EXCEPT ![s] = FALSE]
  /\ lastLookup' = [lastLookup EXCEPT ![s] = NoLookup]
  /\ lastErr' = NoError
  /\ UNCHANGED <<now, releasedRegs, lastFire>>

\* dispatchDbObject(req) on a session whose lookup succeeds
DispatchDbObject(s) ==
  LET d == DeserializeConnection(connectionManager, session, s)
      connectionData == connectionManager[d.id]
  IN /\ d.ok
     /\ timers' = IF connectionData.timeoutId # Undefined
                    THEN ClearTimeout(timers, connectionData.timeoutId)
                    ELSE timers
     /\ connectionManager' = Remove(connectionManager, d.id)
     /\ regOf' = Remove(regOf, d.id)
     /\ ownerOf' = Remove(ownerOf, d.id)
     /\ releasedRegs' = releasedRegs \cup {regOf[d.id]}

\* releaseConnection of src/index.ts
ReleaseConnection(s) ==
  LET d == DeserializeConnection(connectionManager, session, s)
  IN IF d.ok
       THEN /\ DispatchDbObject(s)
            /\ free' = free \cup {connectionManager[d.id].connection}
            /\ releasedSince' = [releasedSince EXCEPT ![s] = TRUE]
            /\ lastLookup' = [lastLookup EXCEPT ![s] = NoLookup]
            /\ UNCHANGED <<session, now, nextReg, myReg, lastFire, lastErr>>
       ELSE \* CONN_NOT_INIT is swallowed: the call returns normally
            UNCHANGED regVars

\* getDbObject(req): the lookup, its outcome recorded
GetDbObject(s) ==
  LET d == DeserializeConnection(connectionManager, session, s)
  IN /\ lastLookup' = [lastLookup EXCEPT ![s] =
          [code |-> d.code,
           hit |-> IF d.ok THEN regOf[d.id] ELSE 0,
           late |-> myReg[s].reg # 0 /\ now > myReg[s].at + TIMEOUT_WITHIN]]
     /\ lastLookup' # lastLookup
     /\ UNCHANGED <<connectionManager, session, timers, free, now, nextReg,
                    regOf, myReg, releasedSince, releasedRegs, lastFire, ownerOf,
                    lastErr>>

\* the setTimeout callback of serializeConnection: connectionManager.delete(connectionId)
EvictionTimer(t) ==
  /\ t \in timers
  /\ t.deadline <= now
  /\ timers' = timers \ {t}
  /\ connectionManager' = Remove(connectionManager, t.key)
  /\ regOf' = Remove(regOf, t.key)
  /\ ownerOf' = Remove(ownerOf, t.key)
  /\ lastFire' = [reg |-> t.reg,
                  removed |-> IF t.key \in DOMAIN regOf THEN regOf[t.key] ELSE 0]
  /\ UNCHANGED <<session, free, now, nextReg, myReg, releasedSince,
                 releasedRegs, lastLookup, lastErr>>

\* time passes; a due timer runs before the clock moves on
Tick ==
  /\ now + TickMs <= MaxNow
  /\ \A t \in timers : t.deadline > now
  /\ now' = now + TickMs
  /\ UNCHANGED <<connectionManager, session, timers, free, nextReg, regOf,
                 myReg, releasedSince, releasedRegs, lastLookup, lastFire, ownerOf,
                 lastErr>>

\* checkSessionObject(req) on a request that has no req.session
SessionMissingError ==
  DatabaseError(<<"Session object is not yet initialized. Make sure that you have configured your session.">>,
                "DB_ERR")

\* catch (error) { throw new DatabaseError(error.message, error.code) }
Rewrap(error) == DatabaseError(error.message, error.code)

\* the catch block of initializeConnection:
\* new DatabaseError(`Error initializing database. ${error}`)
InitializationError(error) ==
  DatabaseError(<<"Error initializing database. ", error.name, ": ">> \o error.message,
                "DB_ERR")

StepsBeforeSessionCheck_Timer == {"setTimeout"}

\* the storing statements of serializeConnection that run before
\* setConnectionId: connectionManager.set and setTimeout both come after it
StepsBeforeSessionCheck == {}

\* initializeConnection for a request without req.session: the pool lends a
\* handle, serializeConnection throws in setConnectionId (checkSessionObject)
InitializeConnectionNoSession ==
  /\ \E h \in free :
       LET id == ConnectionIdOf(h)
           t == [reg |-> nextReg, key |-> id, deadline |-> now + TIMEOUT_WITHIN]
       IN /\ free' = free \ {h}
          /\ connectionManager' =
               IF "set" \in StepsBeforeSessionCheck
                 THEN Put(connectionManager, id,
                          [connection |-> h, timeoutId |-> Undefined,
                           referenceNo |-> Undefined, timestamp |-> Undefined])
                 ELSE connectionManager
          /\ timers' = IF "setTimeout" \in StepsBeforeSessionCheck
                         THEN timers \cup {t}
                         ELSE timers
  /\ lastErr' = InitializationError(Rewrap(Rewrap(SessionMissingError)))
  /\ UNCHANGED <<session, now, nextReg, regOf, myReg, releasedSince, releasedRegs,
                 lastLookup, lastFire, ownerOf>>

\* the updateData of an updateDbObject call: Partial<DatabaseObject>
UpdateArgs == {[referenceNo |-> "ref"], [referenceNo |-> "ref", timestamp |-> "ts"]}

TimersAfterUpdate_Renewed(ts, id) ==
  {IF t.key = id THEN [t EXCEPT !.deadline = now + TIMEOUT_WITHIN] ELSE t : t \in ts}

\* the timers after updateDbObject wrote the record under id: the function
\* calls neither setTimeout nor clearTimeout
TimersAfterUpdate(ts, id) == ts

\* updateDbObject(req, updateData)
UpdateDbObjectCall(s, updateData) ==
  LET d == DeserializeConnection(connectionManager, session, s)
  IN /\ IF d.ok
          THEN /\ connectionManager' = UpdateDbObject(connectionManager, d.id, updateData)
               /\ timers' = TimersAfterUpdate(timers, d.id)
               /\ lastErr' = NoError
          ELSE /\ lastErr' = Rewrap(Rewrap(Rewrap(ConnNotInitError)))
               /\ UNCHANGED <<connectionManager, timers>>
     /\ UNCHANGED <<session, free, now, nextReg, regOf, myReg, releasedSince,
                    releasedRegs, lastLookup, lastFire, ownerOf>>

Next ==
  \/ (\E s \in Sessions : InitializeConnection(s)) /\ UNCHANGED <<mdVars, qVars, txVars>>
  \/ (\E s \in Sessions : ReleaseConnection(s)) /\ UNCHANGED <<mdVars, qVars, txVars>>
  \/ (\E s \in Sessions : GetDbObject(s)) /\ UNCHANGED <<mdVars, qVars, txVars>>
  \/ (\E t \in timers : EvictionTimer(t)) /\ UNCHANGED <<mdVars, qVars, txVars>>
  \/ Tick /\ UNCHANGED <<mdVars, qVars, txVars>>

vars == <<regVars, mdVars, qVars, txVars>>

Spec == Init /\ [][Next]_vars

----------------------------------------------------------------------------
(* The retry executor on its own: manageDeadlocks(maxRetries, op, cap) *)

InitRetry ==
  /\ RegInit
  /\ QIdle
  /\ TxIdle
  /\ \E m \in 0..MaxRetriesBound : \E arg \in BackoffArgs : MdCalled(m, arg)
  /\ outer = NoOuter

NextRetry ==
  \/ MdInvoke /\ UNCHANGED <<regVars, qVars, txVars>>
  \/ OpSucceeds /\ UNCHANGED <<regVars, qVars, txVars>>
  \/ OpFails /\ UNCHANGED <<regVars, qVars, txVars>>
  \/ MdBackoffElapsed /\ UNCHANGED <<regVars, qVars, txVars>>

SpecRetry == InitRetry /\ [][NextRetry]_vars

\* manageDeadlocks nested in manageDeadlocks: the queryFunction of the
\* enclosing call is a manageDeadlocks call of its own, as when a caller
\* wraps executeDbQuery, whose body runs under manageDeadlocks(3, ...)
OuterRetriesArgs == 0..QueryMaxRetries

InitNested ==
  /\ RegInit
  /\ QIdle
  /\ TxIdle
  /\ \E m \in 0..MaxRetriesBound : MdCalled(m, << >>)
  /\ \E m \in OuterRetriesArgs : OuterCalled(m)

NextNested ==
  \/ MdInvoke /\ UNCHANGED <<regVars, qVars, txVars>>
  \/ OpSucceeds /\ UNCHANGED <<regVars, qVars, txVars>>
  \/ OpFails /\ UNCHANGED <<regVars, qVars, txVars>>
  \/ MdBackoffElapsed /\ UNCHANGED <<regVars, qVars, txVars>>
  \/ OuterOnSuccess /\ UNCHANGED <<regVars, qVars, txVars>>
  \/ OuterOnFailure /\ UNCHANGED <<regVars, qVars, txVars>>

SpecNested == InitNested /\ [][NextNested]_vars

\* maxRetries of any sign: the type is number
RetriesArgs == -1..MaxRetriesBound

InitRetryAny ==
  /\ RegInit
  /\ QIdle
  /\ TxIdle
  /\ \E m \in RetriesArgs : \E arg \in BackoffArgs : MdCalled(m, arg)
  /\ outer = NoOuter

\* the retry executor under fairness: an attempt that has been started
\* settles, the timer of a backoff fires, and the code between them runs
SpecRetryFair == InitRetryAny /\ [][NextRetry]_vars /\ WF_vars(NextRetry)

----------------------------------------------------------------------------
(* executeDbQuery(arg1, dbName, sql, params, options): one call, wrapped by *)
(* manageDeadlocks(3, ...), next to its session acquiring a connection      *)
(* once and releasing it                                                    *)

QuerySessions == {1}

InitQuery ==
  /\ RegInit
  /\ TxIdle
  /\ MdCalled(QueryMaxRetries, << >>)
  /\ outer = NoOuter
  /\ \E a \in Arg1Args : \E sql \in SqlArgs : \E ps \in ParamsArgs :
       \E o \in OptionsArgs :
         qArgs = [arg1 |-> a, sql |-> sql, params |-> ps, options |-> o]
  /\ qPc = "idle"
  /\ qI = 0
  /\ qConn = 0
  /\ queryResult = << >>
  /\ qDone = << >>
  /\ qErr = NoError
  /\ inflight = {}
  /\ executed = {}
  /\ dispatched = << >>

NextQuery ==
  \/ (\E s \in QuerySessions : myReg[s].reg = 0 /\ InitializeConnection(s))
       /\ UNCHANGED <<mdVars, qVars, txVars>>
  \/ (\E s \in QuerySessions : ReleaseConnection(s)) /\ UNCHANGED <<mdVars, qVars, txVars>>
  \/ QAttempt /\ UNCHANGED <<regVars, txVars>>
  \/ (\E x \in inflight : ExecuteResolves(x)) /\ UNCHANGED <<regVars, mdVars, txVars>>
  \/ (\E x \in inflight : \E c \in StmtFailCodes : ExecuteRejects(x, c))
       /\ UNCHANGED <<regVars, mdVars, txVars>>
  \/ (\E x \in inflight : ExecuteSettlesUnawaited(x)) /\ UNCHANGED <<regVars, mdVars, txVars>>
  \/ QReturns /\ UNCHANGED <<regVars, txVars>>
  \/ QThrows /\ UNCHANGED <<regVars, txVars>>
  \/ MdBackoffElapsed /\ UNCHANGED <<regVars, qVars, txVars>>

SpecQuery == InitQuery /\ [][NextQuery]_vars

----------------------------------------------------------------------------
(* The transaction methods of one session, which acquires and releases     *)
(* connections, next to a peer that acquires one from the same pool; a     *)
(* transaction query() runs to its end before the registry changes again.  *)
(* The executeDbQuery call of query() never has more than one statement in *)
(* flight (its sql is one statement, an empty list or a mismatched list),  *)
(* so no call is left unawaited                                            *)

TxSessions == {1}

\* the sessions that acquire: that one and a peer on the same pool
PoolSessions == {1, 2}

\* the registry is left alone while a transaction query() is awaited
NoQueryPending == \A s \in Sessions : txPc[s] = "idle"

NextTx ==
  \/ (\E s \in PoolSessions :
        /\ NoQueryPending
        /\ s \notin TxSessions => myReg[s].reg = 0
        /\ InitializeConnection(s))
       /\ UNCHANGED <<mdVars, qVars, txVars>>
  \/ (\E s \in TxSessions : NoQueryPending /\ ReleaseConnection(s))
       /\ UNCHANGED <<mdVars, qVars, txVars>>
  \/ (\E s \in TxSessions : TxInit(s)) /\ UNCHANGED <<regVars, mdVars, qVars>>
  \/ (\E s \in TxSessions : \E ps \in TxParamsArgs : TxQueryStart(s, ps))
  \/ QAttempt /\ UNCHANGED <<regVars, txVars>>
  \/ (\E x \in inflight : ExecuteResolves(x)) /\ UNCHANGED <<regVars, mdVars, txVars>>
  \/ (\E x \in inflight : \E c \in StmtFailCodes : ExecuteRejects(x, c))
       /\ UNCHANGED <<regVars, mdVars, txVars>>
  \/ QReturns /\ UNCHANGED <<regVars, txVars>>
  \/ QThrows /\ UNCHANGED <<regVars, txVars>>
  \/ MdBackoffElapsed /\ UNCHANGED <<regVars, qVars, txVars>>
  \/ (\E s \in TxSessions : TxQueryResumes(s))
  \/ (\E s \in TxSessions : TxCommit(s)) /\ UNCHANGED <<regVars, mdVars, qVars>>
  \/ (\E s \in TxSessions : TxRollback(s)) /\ UNCHANGED <<regVars, mdVars, qVars>>
  \/ (\E s \in TxSessions : TxRetrieve(s)) /\ UNCHANGED <<mdVars, qVars>>

SpecTx == Init /\ [][NextTx]_vars

----------------------------------------------------------------------------
(* The lifetime of a session's records: the session acquires (also a       *)
(* second time), updates and releases while the clock runs and the         *)
(* eviction timers fire                                                    *)

LifeSessions == {1}

\* the update made while the clock runs: a referenceNo
LifeUpdateArgs == {[referenceNo |-> "ref"]}

NextLife ==
  \/ (\E s \in LifeSessions : InitializeConnection(s)) /\ UNCHANGED <<mdVars, qVars, txVars>>
  \/ (\E s \in LifeSessions : ReleaseConnection(s)) /\ UNCHANGED <<mdVars, qVars, txVars>>
  \/ (\E s \in LifeSessions : \E u \in LifeUpdateArgs : UpdateDbObjectCall(s, u))
       /\ UNCHANGED <<mdVars, qVars, txVars>>
  \/ (\E t \in timers : EvictionTimer(t)) /\ UNCHANGED <<mdVars, qVars, txVars>>
  \/ Tick /\ UNCHANGED <<mdVars, qVars, txVars>>

SpecLife == Init /\ [][NextLife]_vars

----------------------------------------------------------------------------
(* A transaction query() of one session, which acquires once, overlapping  *)
(* the session's own registry calls (update, release) and the eviction     *)
(* timer: the await of executeDbQuery lets any of them run between the     *)
(* attempts, during a backoff, and between the last statement and          *)
(* updateDbObject                                                          *)

\* no query is under way, or the one under way is suspended at an await
\* that ends with an event (connection.execute, the setTimeout of the
\* backoff): from the call to the first execute, and from the settling of
\* execute to the return of query(), the code runs on without giving
\* another request or a timer the turn
QuerySuspended == mdPc = "idle" \/ mdPc = "backoff" \/ inflight # {}

NextOverlap ==
  \/ (\E s \in TxSessions :
        QuerySuspended /\ myReg[s].reg = 0 /\ InitializeConnection(s))
       /\ UNCHANGED <<mdVars, qVars, txVars>>
  \/ (\E s \in TxSessions : QuerySuspended /\ ReleaseConnection(s))
       /\ UNCHANGED <<mdVars, qVars, txVars>>
  \/ (\E s \in TxSessions : \E u \in LifeUpdateArgs :
        QuerySuspended /\ UpdateDbObjectCall(s, u))
       /\ UNCHANGED <<mdVars, qVars, txVars>>
  \/ (\E t \in timers : QuerySuspended /\ EvictionTimer(t))
       /\ UNCHANGED <<mdVars, qVars, txVars>>
  \/ (QuerySuspended /\ Tick) /\ UNCHANGED <<mdVars, qVars, txVars>>
  \/ (\E s \in TxSessions : \E ps \in TxParamsArgs : TxQueryStart(s, ps))
  \/ QAttempt /\ UNCHANGED <<regVars, txVars>>
  \/ (\E x \in inflight : ExecuteResolves(x)) /\ UNCHANGED <<regVars, mdVars, txVars>>
  \/ (\E x \in inflight : \E c \in StmtFailCodes : ExecuteRejects(x, c))
       /\ UNCHANGED <<regVars, mdVars, txVars>>
  \/ QReturns /\ UNCHANGED <<regVars, txVars>>
  \/ QThrows /\ UNCHANGED <<regVars, txVars>>
  \/ MdBackoffElapsed /\ UNCHANGED <<regVars, qVars, txVars>>
  \/ (\E s \in TxSessions : TxQueryResumes(s))

SpecOverlap == Init /\ [][NextOverlap]_vars

----------------------------------------------------------------------------
(* The registry calls with the clock standing still: sessions acquire,     *)
(* also from a request without a session store, update and release         *)

NextCalls ==
  \/ (\E s \in PoolSessions : InitializeConnection(s)) /\ UNCHANGED <<mdVars, qVars, txVars>>
  \/ InitializeConnectionNoSession /\ UNCHANGED <<mdVars, qVars, txVars>>
  \/ (\E s \in PoolSessions : ReleaseConnection(s)) /\ UNCHANGED <<mdVars, qVars, txVars>>
  \/ (\E s \in PoolSessions : \E u \in UpdateArgs : UpdateDbObjectCall(s, u))
       /\ UNCHANGED <<mdVars, qVars, txVars>>

SpecCalls == Init /\ [][NextCalls]_vars

----------------------------------------------------------------------------
(* Registry claims *)

\* C1: once a session has completed a release, every later lookup it makes
\* fails with CONN_NOT_INIT until it acquires a connection again.
C1_LookupAfterReleaseFails ==
  \A s \in Sessions :
    (releasedSince[s] /\ lastLookup[s].code # "none")
      => lastLookup[s].code = "CONN_NOT_INIT"

\* C2: the eviction timer of a record that was explicitly released never runs
\* its deletion, and a timer never removes a record of a later registration.
C2_ReleaseCancelsTimer ==
  /\ lastFire.reg \notin releasedRegs
  /\ lastFire.removed \in {0, lastFire.reg}

\* C3: a lookup made by a session more than TIMEOUT_WITHIN after its latest
\* registration, with no release by it in between, fails with CONN_NOT_INIT.
C3_LookupAfterWindowFails ==
  \A s \in Sessions :
    (myReg[s].reg # 0 /\ ~releasedSince[s] /\ lastLookup[s].late)
      => lastLookup[s].code = "CONN_NOT_INIT"

\* the latest registration of s is no longer in the map (or s never had one)
NoLiveRecord(s) ==
  \/ myReg[s].reg = 0
  \/ ~(\E id \in DOMAIN regOf : regOf[id] = myReg[s].reg)

\* C19: releaseConnection called by a session with no live record (never
\* acquired, already released, or evicted) returns without releasing any
\* handle and leaves the registry unchanged.
C19_ReleaseIsIdempotent ==
  [][\A s \in Sessions :
       (NoLiveRecord(s) /\ ReleaseConnection(s))
         => UNCHANGED <<connectionManager, free, timers>>]_vars

\* the records in the registry that were registered for session s
RecordsOf(s) == {id \in DOMAIN connectionManager : ownerOf[id] = s}

\* C26: the registry never holds more than one record registered for the
\* same session, also after the session acquired again without releasing.
C26_OneRecordPerSession ==
  \A s \in Sessions : Cardinality(RecordsOf(s)) <= 1

\* C35: a releaseConnection call of session s removes no record that was
\* registered for another session and hands no handle of such a record back
\* to the pool, in every interleaving of the sessions' calls.
C35_ReleaseTouchesOnlyOwnRecord ==
  [][\A s \in Sessions :
       ReleaseConnection(s)
         => /\ \A id \in DOMAIN connectionManager \ DOMAIN connectionManager' :
                 ownerOf[id] = s
            /\ \A id \in DOMAIN connectionManager :
                 connectionManager[id].connection \in free' \ free
                   => ownerOf[id] = s]_vars

\* the handles the pool has lent and not got back
Borrowed == Handles \ free

\* C32: every handle obtained by acquireConnection goes back to the pool, by
\* releaseConnection or by the forced release at the eviction deadline: in no
\* reachable state is a handle still borrowed while the registry holds no
\* record of it, the state in which no session can release it any more.
C32_NoBorrowedHandleWithoutRecord ==
  \A h \in Borrowed :
    \E id \in DOMAIN connectionManager : connectionManager[id].connection = h

----------------------------------------------------------------------------
(* Lifetime claims (SpecLife) *)

----------------------------------------------------------------------------
(* Registry call claims (SpecCalls) *)

\* C28: initializeConnection for a request without a session store throws
\* a DatabaseError of code DB_ERR, stores no record and arms no timer.
C28_AcquireWithoutSessionStore ==
  [][InitializeConnectionNoSession
       => /\ lastErr'.name = "DatabaseError"
          /\ lastErr'.code = "DB_ERR"
          /\ connectionManager' = connectionManager
          /\ timers' = timers]_vars

\* the call has failed on an empty registry after the pool lent a handle
C28_Witness ==
  /\ lastErr = InitializationError(Rewrap(Rewrap(SessionMissingError)))
  /\ connectionManager = << >>
  /\ timers = {}
  /\ free # Handles

\* C29: updateDbObject on a session whose stored id is in the registry
\* writes the given fields, and only those, to the record under that id:
\* its handle and timer reference, every other record, the key set and the
\* armed timers stay as they were; on a session with no stored id, or whose
\* id is not in the registry, it throws CONN_NOT_INIT and changes nothing.
C29_UpdateChangesOnlyGivenFields ==
  [][\A s \in PoolSessions : \A u \in UpdateArgs :
       UpdateDbObjectCall(s, u)
         => /\ DOMAIN connectionManager' = DOMAIN connectionManager
            /\ timers' = timers
            /\ IF session[s] # Undefined /\ session[s] \in DOMAIN connectionManager
                 THEN LET id == session[s]
                          old == connectionManager[id]
                          new == connectionManager'[id]
                      IN /\ lastErr' = NoError
                         /\ new.connection = old.connection
                         /\ new.timeoutId = old.timeoutId
                         /\ new.referenceNo = u.referenceNo
                         /\ new.timestamp = IF "timestamp" \in DOMAIN u
                                              THEN u.timestamp
                                              ELSE old.timestamp
                         /\ \A k \in DOMAIN connectionManager \ {id} :
                              connectionManager'[k] = connectionManager[k]
                 ELSE /\ lastErr'.code = "CONN_NOT_INIT"
                      /\ connectionManager' = connectionManager]_vars

\* a call that gave only a referenceNo has been made on a record, which
\* has no timestamp, next to a record no call was made on
C29_Witness ==
  /\ lastErr = NoError
  /\ \E id \in DOMAIN connectionManager :
       /\ connectionManager[id].referenceNo = "ref"
       /\ connectionManager[id].timestamp = Undefined
       /\ connectionManager[id].timeoutId = "[object Object]"
       /\ connectionManager[id].connection \in Handles
       /\ \E k \in DOMAIN connectionManager \ {id} :
            connectionManager[k].referenceNo = Undefined

\* referenceNo and timestamp of a record
Metadata(rec) == <<rec.referenceNo, rec.timestamp>>

\* C39: a newly registered record carries no transaction metadata: right
\* after a successful acquireConnection the snapshot of the session's record
\* reports the connection as initialized with no referenceNo and no
\* timestamp, also when the session had a record with metadata before; and
\* until an update of the record (the one a successful transaction query
\* makes) no call gives the record metadata.
C39_NewRecordHasNoMetadata ==
  /\ [][\A s \in PoolSessions :
          InitializeConnection(s)
            => LET r == Snapshot(connectionManager'[session'[s]])
               IN /\ r.connection
                  /\ r.referenceNo = Undefined
                  /\ r.timestamp = Undefined]_vars
  /\ [][\A id \in DOMAIN connectionManager \cap DOMAIN connectionManager' :
          (/\ regOf'[id] = regOf[id]
           /\ Metadata(connectionManager'[id]) # Metadata(connectionManager[id]))
            => \E s \in PoolSessions : \E u \in UpdateArgs :
                 UpdateDbObjectCall(s, u)]_vars

\* session 1 acquired again after its first record had been given a
\* referenceNo: the record of its latest registration has none
C39_Witness ==
  /\ session[1] \in DOMAIN connectionManager
  /\ regOf[session[1]] = myReg[1].reg
  /\ Metadata(connectionManager[session[1]]) = <<Undefined, Undefined>>
  /\ \E id \in RecordsOf(1) :
       /\ id # session[1]
       /\ connectionManager[id].referenceNo = "ref"

----------------------------------------------------------------------------
(* Retry executor claims (SpecRetry) *)

AllContention(log) == \A i \in DOMAIN log : log[i] \in ContentionCodes

\* the log is k contention failures followed by a success
ContentionThenSuccess(log) ==
  /\ Len(log) >= 1
  /\ log[Len(log)] \in OpResults
  /\ \A i \in 1..(Len(log) - 1) : log[i] \in ContentionCodes

RECURSIVE Doubled(_)
Doubled(i) == IF i = 0 THEN 100 ELSE 2 * Doubled(i - 1)

ExpectedWait(i, cap) == IF Doubled(i) <= cap THEN Doubled(i) ELSE cap

RECURSIVE SumSeq(_)
SumSeq(q) == IF q = << >> THEN 0 ELSE q[1] + SumSeq(Tail(q))

RECURSIVE ExpectedTotal(_, _)
ExpectedTotal(k, cap) ==
  IF k = 0 THEN 0 ELSE ExpectedTotal(k - 1, cap) + ExpectedWait(k - 1, cap)

\* C4: manageDeadlocks(maxRetries, op) with maxRetries >= 0: op is never
\* attempted more than maxRetries + 1 times; when every attempt fails with a
\* contention code, the (maxRetries + 1)-th failure ends the call with a
\* DatabaseError, after exactly maxRetries + 1 attempts.
C4_ExhaustionAttempts ==
  /\ attempts <= mdArgs.maxRetries + 1
  /\ (AllContention(opLog) /\ Len(opLog) = mdArgs.maxRetries + 1)
       => (mdPc = "thrown" /\ mdError.name = "DatabaseError")
  /\ (AllContention(opLog) /\ mdPc \in {"thrown", "returned"})
       => (mdPc = "thrown" /\ attempts = mdArgs.maxRetries + 1)

C4_Witness ==
  /\ mdArgs.maxRetries = 3
  /\ mdPc = "thrown"
  /\ attempts = 4
  /\ Len(opLog) = 4
  /\ AllContention(opLog)

\* C5: when op fails with a contention code exactly k < maxRetries times and
\* then succeeds, the call returns op's result unchanged after exactly k + 1
\* attempts and k waits (none for k = 0).
C5_SuccessAfterContention ==
  (ContentionThenSuccess(opLog) /\ Len(opLog) - 1 < mdArgs.maxRetries)
    => /\ mdPc = "returned"
       /\ mdResult = opLog[Len(opLog)]
       /\ attempts = Len(opLog)
       /\ Len(waits) = Len(opLog) - 1
       /\ mdError = NoError

C5_Witness ==
  /\ mdArgs.maxRetries = 3
  /\ mdPc = "returned"
  /\ Len(opLog) = 3
  /\ ContentionThenSuccess(opLog)
  /\ mdResult = "rowsB"

\* C6: the i-th wait (i counted from 0) is min(2^i * 100, maxBackoffTime),
\* maxBackoffTime being 8000 when the argument is omitted; no wait exceeds
\* maxBackoffTime; there is one wait per retry, so the total wait before a
\* success after k contention failures is the sum of those k terms.
C6_BackoffSchedule ==
  /\ \A i \in 1..Len(waits) :
       /\ waits[i] = ExpectedWait(i - 1, mdArgs.maxBackoffTime)
       /\ waits[i] <= mdArgs.maxBackoffTime
  /\ Len(waits) = retryCount
  /\ mdArgs.maxBackoffTime \in {DefaultMaxBackoffTime, SmallBackoffCap}
  /\ mdPc = "returned"
       => /\ Len(waits) = Len(opLog) - 1
          /\ SumSeq(waits) = ExpectedTotal(Len(opLog) - 1, mdArgs.maxBackoffTime)

\* a success after 8 contention failures under the default cap: the last
\* wait is the cap, 8000 ms, the total 100 + 200 + ... + 6400 + 8000
C6_Witness ==
  /\ mdPc = "returned"
  /\ mdArgs.maxBackoffTime = 8000
  /\ Len(waits) = 8
  /\ waits[7] = 6400
  /\ waits[8] = 8000
  /\ SumSeq(waits) = 20700

\* C7: a failure with a code other than the two contention codes ends the
\* call at once: it is the last attempt, no wait follows it, and the error
\* thrown wraps its message, whatever the retry budget left.
C7_OtherErrorsPropagate ==
  \A j \in DOMAIN opLog :
    opLog[j] \in OtherCodes
      => /\ j = Len(opLog)
         /\ attempts = j
         /\ Len(waits) = j - 1
         /\ mdPc = "thrown"
         /\ mdError.name = "DatabaseError"
         /\ mdError.message[Len(mdError.message)] = opLog[j]

C7_Witness ==
  /\ mdArgs.maxRetries = 8
  /\ Len(opLog) = 3
  /\ opLog[1] \in ContentionCodes
  /\ opLog[2] \in ContentionCodes
  /\ opLog[3] = "ER_DUP_ENTRY"
  /\ mdPc = "thrown"

MdSettled == mdPc \in {"returned", "thrown"}

\* max(maxRetries, 0) + 1
AttemptBudget == IF mdArgs.maxRetries > 0 THEN mdArgs.maxRetries + 1 ELSE 1

\* C40: manageDeadlocks terminates: for every maxRetries, of any sign, and
\* every sequence of outcomes of op, each attempt settling, the call returns
\* or throws in the end, after at most max(maxRetries, 0) + 1 attempts; with
\* maxRetries <= 0 op is attempted exactly once.
C40_Terminates ==
  /\ <>MdSettled
  /\ [](attempts <= AttemptBudget)
  /\ []((MdSettled /\ mdArgs.maxRetries <= 0) => attempts = 1)

\* a negative maxRetries: the one attempt fails on a deadlock and the call
\* throws without a retry
C40_Witness ==
  /\ mdArgs.maxRetries = -1
  /\ mdPc = "thrown"
  /\ attempts = 1
  /\ opLog = <<"ER_LOCK_DEADLOCK">>
  /\ waits = << >>

----------------------------------------------------------------------------
(* Query executor claims (SpecQuery) *)

MismatchedCall == qArgs.sql.isArray /\ qArgs.sql.len # qArgs.params.len

LastOf(q) == q[Len(q)]

\* C8 as stated: a batch whose params list has another length fails with the
\* "Mismatched SQL queries and parameters." DatabaseError, without any
\* connection.execute call and without a retry.
C8_MismatchIsConfigurationError ==
  MismatchedCall
    => /\ executed = {}
       /\ attempts <= 1
       /\ mdPc \notin {"returned", "backoff"}
       /\ mdPc = "thrown"
            => /\ mdError.name = "DatabaseError"
               /\ LastOf(mdError.message) = "Mismatched SQL queries and parameters."

\* C8 as amended: a batch whose params list has another length makes no
\* connection.execute call and is attempted once; the call throws a
\* DatabaseError of code DB_ERR, carrying the mismatch message when the
\* attempt had a connection (arg1 a connection, or a request with a live
\* record) and the not-initialized message when the request had none.
C8_MismatchFailsWithoutExecute ==
  MismatchedCall
    => /\ executed = {}
       /\ inflight = {}
       /\ attempts <= 1
       /\ mdPc \notin {"returned", "backoff"}
       /\ (attempts = 1 /\ qPc = "idle") => mdPc = "thrown"
       /\ mdPc = "thrown"
            => /\ mdError.name = "DatabaseError"
               /\ mdError.code = "DB_ERR"
               /\ qConn # 0
                    => LastOf(mdError.message) = "Mismatched SQL queries and parameters."
               /\ qConn = 0
                    => /\ qArgs.arg1.kind = "req"
                       /\ LastOf(mdError.message) = "Connection is not yet initialized."

C8_Witness ==
  /\ MismatchedCall
  /\ qArgs.arg1.kind = "req"
  /\ qConn # 0
  /\ mdPc = "thrown"
  /\ attempts = 1
  /\ LastOf(mdError.message) = "Mismatched SQL queries and parameters."

\* C9: with sql a list and options.parallel false or absent, the statements
\* are dispatched in input order and statement i+1 is not dispatched before
\* statement i has finished: no two statements of an attempt are in flight.
C9_SequentialByDefault ==
  (qArgs.sql.isArray /\ qArgs.options \in {<< >>, <<FALSE>>})
    => /\ \A x, y \in inflight : x.att = y.att => x.idx = y.idx
       /\ \A i \in DOMAIN dispatched : dispatched[i] = i

\* C10: with sql a list and options.parallel true, every statement of the
\* batch has been dispatched by the time the body awaits a result.
C10_ParallelDispatchesAll ==
  (qArgs.sql.isArray /\ qArgs.options = <<TRUE>>
     /\ qPc \in {"awaitOne", "awaitAll"})
    => Len(dispatched) = qArgs.sql.len

\* C11: a call on a batch of n statements that returns, returns the list of
\* n results whose i-th element is the result of statement i, in either mode
\* and whatever the order in which the statements completed; a call on a
\* single statement returns that statement's result itself, not a list.
C11_ResultsInInputOrder ==
  mdPc = "returned"
    => IF qArgs.sql.isArray
         THEN /\ Len(mdResult) = qArgs.sql.len
              /\ \A i \in 1..qArgs.sql.len : mdResult[i] = Rows(i)
         ELSE mdResult = Rows(1)

\* a Promise.all batch whose second statement completed before its first
C11_Witness ==
  /\ mdPc = "returned"
  /\ qArgs.sql.isArray
  /\ qArgs.options = << >>
  /\ qDone = <<2, 1>>
  /\ mdResult = <<Rows(1), Rows(2)>>

IsPrefixOfBatch(d) == \A i \in DOMAIN d : d[i] = i

\* a retry of the query body: manageDeadlocks invokes it again
RetryStep == mdPc = "call" /\ retryCount >= 1 /\ mdPc' = "running"

\* C12: executeDbQuery retries under a budget of 3: an attempt that fails
\* with a contention code while fewer than 4 attempts were made is followed
\* by another attempt; every attempt dispatches the statements from the
\* first one on, in order: a retry whose connection resolves dispatches
\* statement 1 anew, and one that completes has dispatched the whole batch
\* again, whichever statement failed before.
C12_RetryRestartsBatch ==
  /\ [](/\ attempts <= 4
        /\ (/\ attempts \in 1..3
            /\ mdPc # "returned"
            /\ Len(opLog) = attempts
            /\ opLog[attempts] \in ContentionCodes) => mdPc \in {"backoff", "call"}
        /\ qArgs.sql.isArray =>
             /\ IsPrefixOfBatch(dispatched)
             /\ qPc = "returning" => Len(dispatched) = qArgs.sql.len)
  /\ [][(RetryStep /\ qArgs.sql.isArray /\ ResolveConnection(qArgs.arg1).ok)
          => /\ qPc' \in {"awaitOne", "awaitAll"}
             /\ dispatched'[1] = 1
             /\ [att |-> attempts', idx |-> 1, conn |-> qConn'] \in inflight']_vars

\* the second attempt of a Promise.all batch of two has completed; the first
\* attempt failed on statement 2 with a deadlock while its statement 1 was
\* (and still is) in flight
C12_Witness ==
  /\ qArgs.sql.isArray
  /\ qArgs.sql.len = 2
  /\ attempts = 2
  /\ opLog = <<"ER_LOCK_DEADLOCK">>
  /\ \E x \in inflight : x.att = 0 /\ x.idx = 1
  /\ qPc = "returning"
  /\ dispatched = <<1, 2>>

\* C20: a query given the request of a session with no live registration
\* fails with an error of code CONN_NOT_INIT, after one attempt and without
\* any connection.execute call.
C20_NoRegistrationIsConnNotInit ==
  (mdPc = "thrown" /\ opLog = <<"CONN_NOT_INIT">>)
    => /\ attempts = 1
       /\ executed = {}
       /\ mdError.code = "CONN_NOT_INIT"

\* a batch of n >= 1 statements called with params omitted (the default [])
\* or empty
BatchWithoutParams ==
  qArgs.sql.isArray /\ qArgs.sql.len >= 1 /\ qArgs.params.len = 0

\* C34: executeDbQuery accepts a batch whose params are absent or empty: the
\* call is not rejected with the mismatch DatabaseError, and when it returns
\* the n statements have been executed.
C34_BatchWithoutParamsAccepted ==
  BatchWithoutParams
    => /\ mdPc = "thrown"
            => LastOf(mdError.message) # "Mismatched SQL queries and parameters."
       /\ mdPc = "returned" => executed = 1..qArgs.sql.len

----------------------------------------------------------------------------
(* Transaction claims (SpecTx) *)

Lookup(s) == DeserializeConnection(connectionManager, session, s)

\* the lookup of s finds the record of its own latest registration
OwnRecord(s) == Lookup(s).ok /\ regOf[Lookup(s).id] = myReg[s].reg

HandleOf(s) == connectionManager[Lookup(s).id].connection

\* a call of op by s finishes in this step
Finishes(s, op) == lastTx'[s].op = op /\ lastTx'[s] # lastTx[s]

\* C13: rollback() called by a session that has no registered connection
\* returns normally and invokes rollback on no handle.
C13_RollbackWithoutRecordIsNoOp ==
  [][\A s \in TxSessions :
       (NoLiveRecord(s) /\ TxRollback(s))
         => /\ ~lastTx'[s].threw
            /\ lastTx'[s].handle = 0]_vars

\* C14: rollback() called while a transaction is active on the session's
\* registered connection invokes rollback on that handle.
C14_RollbackWhileActiveRollsBack ==
  [][\A s \in TxSessions :
       (OwnRecord(s) /\ txState[HandleOf(s)] = "active" /\ TxRollback(s))
         => /\ lastTx'[s].op = "rollback"
            /\ lastTx'[s].handle = HandleOf(s)]_vars

\* C15: once init() and a transaction query() have succeeded, the snapshot
\* retrieve() returns reports the connection as initialized with a
\* referenceNo and a timestamp; commit() leaves the record as it is.
C15_RetrieveAfterQueryHasMetadata ==
  /\ [][\A s \in TxSessions :
          (/\ OwnRecord(s)
           /\ txState[HandleOf(s)] = "active"
           /\ Finishes(s, "query")
           /\ ~lastTx'[s].threw)
            => LET r == Snapshot(connectionManager'[session[s]])
               IN /\ r.connection
                  /\ r.referenceNo # Undefined
                  /\ r.timestamp # Undefined]_vars
  /\ [][\A s \in TxSessions :
          Finishes(s, "commit") => UNCHANGED connectionManager]_vars

\* C16: a successful transaction query() writes the reference number it
\* generated, a fresh one, and its timestamp to the session's record, so
\* that retrieve() returns those of the most recent successful query.
C16_QueryWritesFreshReference ==
  [][\A s \in TxSessions :
       (OwnRecord(s) /\ Finishes(s, "query") /\ ~lastTx'[s].threw)
         => LET ref == GenerateRefNo(connectionManager, now)
                r == Snapshot(connectionManager'[session[s]])
            IN /\ r.referenceNo = ref.uuid
               /\ r.referenceNo # connectionManager[session[s]].referenceNo
               /\ r.timestamp = ref.timestamp]_vars

\* C17: a retrieve() call, whether it returns a snapshot or throws, leaves
\* the registry map (keys and records), the session store and the armed
\* timers as they were.
C17_RetrieveIsReadOnly ==
  [][\A s \in TxSessions :
       Finishes(s, "retrieve")
         => UNCHANGED <<connectionManager, session, timers, free>>]_vars

\* retrieve() has returned the snapshot of a record that still carries its
\* timer reference
C17_Witness ==
  /\ lastTx[1].op = "retrieve"
  /\ ~lastTx[1].threw
  /\ lastTx[1].value.connection
  /\ OwnRecord(1)
  /\ connectionManager[session[1]].timeoutId = "[object Object]"
  /\ timers # {}

\* C18: retrieve() called by a session whose record is gone throws an
\* error of code CONN_NOT_INIT and returns no snapshot.
C18_RetrieveAfterRecordGone ==
  [][\A s \in TxSessions :
       (myReg[s].reg # 0 /\ NoLiveRecord(s) /\ TxRetrieve(s))
         => /\ lastTx'[s].threw
            /\ lastTx'[s].err.code = "CONN_NOT_INIT"
            /\ lastTx'[s].value = NoSnapshot]_vars

\* C21: commit() called by a session with no live registration throws a
\* TransactionError of code CONN_NOT_INIT, calls neither commit nor rollback
\* on any handle and leaves the registry unchanged.
C21_CommitWithoutRegistration ==
  [][\A s \in TxSessions :
       (NoLiveRecord(s) /\ Finishes(s, "commit"))
         => /\ lastTx'[s].threw
            /\ lastTx'[s].err.name = "TransactionError"
            /\ lastTx'[s].err.code = "CONN_NOT_INIT"
            /\ lastTx'[s].handle = 0
            /\ UNCHANGED <<connectionManager, txState>>]_vars

C23_FailuresAreTransactionErrors ==
  \A s \in TxSessions :
    (lastTx[s].threw /\ lastTx[s].op \in {"init", "query", "commit", "rollback"})
      => /\ lastTx[s].err.name = "TransactionError"
         /\ lastTx[s].err.code \in {"DB_ERR", "TRANSACTION_ERR", "CONN_NOT_INIT"}

\* C24: commit() or rollback() called by a session whose registered
\* connection has no active transaction throws instead of calling commit or
\* rollback on the handle, and leaves the record unchanged.
C24_IdleCommitOrRollbackRefused ==
  [][\A s \in TxSessions :
       (/\ OwnRecord(s)
        /\ txState[HandleOf(s)] # "active"
        /\ Finishes(s, "commit") \/ Finishes(s, "rollback"))
         => /\ lastTx'[s].threw
            /\ lastTx'[s].handle = 0
            /\ UNCHANGED <<connectionManager, txState>>]_vars

ControllerOrExecutorStep ==
  txVars' # txVars \/ mdVars' # mdVars \/ qVars' # qVars

----------------------------------------------------------------------------
(* Overlap claims (SpecOverlap) *)

\* C37: a transaction query() that fails, whatever the failure (a list of
\* statements refused as mismatched, the retry budget exhausted, another
\* statement failure, a missing registration at the start or at the
\* update), changes no record: referenceNo and timestamp of every record
\* are as before, so a later retrieve() returns what it returned before.
C37_FailedQueryLeavesMetadata ==
  [][\A s \in TxSessions :
       (Finishes(s, "query") /\ lastTx'[s].threw)
         => /\ DOMAIN connectionManager' = DOMAIN connectionManager
            /\ \A id \in DOMAIN connectionManager :
                 /\ Metadata(connectionManager'[id]) = Metadata(connectionManager[id])
                 /\ Snapshot(connectionManager'[id]) = Snapshot(connectionManager[id])]_vars

\* a query of session 1 has just failed after the retries were used up,
\* and the session's record still has the referenceNo written earlier
C37_Witness ==
  /\ lastTx[1].op = "query"
  /\ lastTx[1].threw
  /\ lastTx[1].err.message = <<"Failed to initialize transaction: ", "DB_ERR">>
  /\ lastTx[1].handle # 0
  /\ Lookup(1).ok
  /\ connectionManager[Lookup(1).id].referenceNo = "ref"

\* C38: a transaction query() is atomic with respect to eviction and
\* release: when executeDbQuery has returned after executing its statement,
\* the call does not report a failure, whatever ran in between.
C38_QueryAtomicWithRegistry ==
  [][\A s \in TxSessions :
       (Finishes(s, "query") /\ mdPc = "returned" /\ executed # {})
         => ~lastTx'[s].threw]_vars

\* C31: no statement is executed on a handle after releaseConnection has
\* returned it to the pool: an attempt, the first or a retried one after a
\* backoff, never calls execute on a handle the pool has got back.
C31_NoExecuteOnReleasedHandle ==
  [][\A x \in inflight' \ inflight : x.conn \notin free]_vars

====
